---- MODULE Spec2Model ----
(***************************************************************************)
(* A model of tnm_download.py: the command line (check_extent,             *)
(* check_output_dir), main (catalog query, dataset resolution, selection   *)
(* prompt) and download_datasets (one ThreadPoolExecutor per dataset, the  *)
(* as_completed loop driving the progress bar).                            *)
(*                                                                         *)
(* Strings the program takes apart (dataset names, URLs, paths, prompt     *)
(* labels) are sequences of one-character strings; a multi-character       *)
(* element stands for a run of characters none of which is '|', '/', ','   *)
(* or white space.                                                         *)
(***************************************************************************)
EXTENDS Integers, Sequences, FiniteSets, TLC

VARIABLES
    pc,                 \* position of the main thread
    exit_status,        \* -1 while running, else the process exit status
    exception,          \* "none", or the exception that ended the run
    extent,             \* -e argument: the components of value.split(',')
    threads,            \* -t argument
    out_dir,            \* what the -o path is on disk: "absent", "dir", "file"
    catalog,            \* what the product service holds for the extent
    net_calls,          \* HTTP requests issued so far (catalog query, fetches)
    response,           \* how requests.get ended: "none" (not called yet),
                        \* "200", "non-200", "raises"
    spinner,            \* yaspin state: "none", "ok", "fail"
    locals_bound,       \* main: messages, errors, available_products assigned
    messages,           \* main: messages
    errors,             \* main: errors
    available_products, \* main: available_products
    items,              \* get_available_products: products_response['items']
    output,             \* lines printed on standard output, in order
    prompted,           \* inquirer.prompt has been invoked
    ticked,             \* the labels the user ticked
    download_called,    \* download_datasets has been entered
    returned,           \* download_datasets has returned normally
    selected_datasets,  \* argument `datasets` of download_datasets
    ds_idx,             \* number of datasets whose loop iteration is complete
    batches             \* per dataset begun: directory, tasks, bar, executor

vars == << pc, exit_status, exception, extent, threads, out_dir, catalog,
           net_calls, response,
           spinner, locals_bound, messages, errors, available_products, items,
           output, prompted, ticked, download_called, returned,
           selected_datasets, ds_idx, batches >>

\* the command line and the remote service: never assigned
inputs == << extent, threads, catalog >>

\* what lines 100-105 of main set
query_result == << response, spinner, locals_bound, messages, errors,
                  available_products, items >>

\* what lines 121-131 of main set
selection == << prompted, ticked, selected_datasets >>

-----------------------------------------------------------------------------
(* Bounds of the model *)

MaxItems == 2       \* catalog items in a response
MaxThreads == 2     \* largest -t value tried
BlocksPerFile == 2  \* blocks urlretrieve reads from a response and writes

-----------------------------------------------------------------------------
(* Strings *)

\* code point order of the characters used
Ord(c) ==
    CASE c = " " -> 32
      [] c = "," -> 44
      [] c = "/" -> 47
      [] c = "?" -> 63
      [] c = "a" -> 97
      [] c = "b" -> 98
      [] c = "f" -> 102
      [] c = "g" -> 103
      [] c = "o" -> 111
      [] c = "q" -> 113
      [] c = "|" -> 124
      [] OTHER -> 200

\* Python's str < str
RECURSIVE StrLess(_, _)
StrLess(s, t) ==
    IF t = <<>> THEN FALSE
    ELSE IF s = <<>> THEN TRUE
    ELSE IF Ord(Head(s)) < Ord(Head(t)) THEN TRUE
    ELSE IF Ord(Head(s)) > Ord(Head(t)) THEN FALSE
    ELSE StrLess(Tail(s), Tail(t))

\* str.split(sep)[0]
RECURSIVE SplitFirst(_, _)
SplitFirst(s, sep) ==
    IF s = <<>> \/ Head(s) = sep THEN <<>>
    ELSE <<Head(s)>> \o SplitFirst(Tail(s), sep)

RECURSIVE LStrip(_)
LStrip(s) == IF s # <<>> /\ Head(s) = " " THEN LStrip(Tail(s)) ELSE s

RECURSIVE RStrip(_)
RStrip(s) ==
    IF s # <<>> /\ s[Len(s)] = " " THEN RStrip(SubSeq(s, 1, Len(s) - 1)) ELSE s

\* str.strip()
Strip(s) == RStrip(LStrip(s))

\* os.path.split(p)[1]: what follows the last '/'
RECURSIVE PathTail(_)
PathTail(p) ==
    IF p = <<>> \/ p[Len(p)] = "/" THEN <<>>
    ELSE PathTail(SubSeq(p, 1, Len(p) - 1)) \o <<p[Len(p)]>>

\* os.path.join(a, b)
PathJoin(a, b) ==
    IF b # <<>> /\ Head(b) = "/" THEN b
    ELSE IF a = <<>> \/ a[Len(a)] = "/" THEN a \o b
    ELSE a \o <<"/">> \o b

-----------------------------------------------------------------------------
(* human_size *)

Units == << " bytes", " KB", " MB", " GB", " TB", " PB", " EB" >>

\* units[1:]
Rest(s) == IF s = <<>> THEN <<>> ELSE Tail(s)

\* Python's int is unbounded: a byte count is the sequence of its base-1024
\* digits, lowest first, without leading zero digits (zero is <<0>>)
RECURSIVE PyInt(_)
PyInt(n) == IF n < 1024 THEN <<n>> ELSE <<n % 1024>> \o PyInt(n \div 1024)

\* a + b (+ carry)
RECURSIVE Add(_, _, _)
Add(a, b, carry) ==
    IF a = <<>> /\ b = <<>>
    THEN IF carry = 0 THEN <<>> ELSE <<carry>>
    ELSE LET sum == (IF a = <<>> THEN 0 ELSE Head(a))
                      + (IF b = <<>> THEN 0 ELSE Head(b)) + carry
         IN  <<sum % 1024>> \o Add(Rest(a), Rest(b), sum \div 1024)

\* bytes < 1024 and bytes >> 10
Below1024(bytes) == Len(bytes) = 1
Shr10(bytes) == IF Len(bytes) = 1 THEN PyInt(0) ELSE Tail(bytes)

\* human_size(bytes, units): the string, or <<"IndexError">> when units[0]
\* is evaluated on an empty list
RECURSIVE human_size(_, _)
human_size(bytes, units) ==
    IF Below1024(bytes)
    THEN IF units = <<>> THEN <<"IndexError">>
         ELSE <<ToString(bytes[1]), units[1]>>
    ELSE human_size(Shr10(bytes), Rest(units))

-----------------------------------------------------------------------------
(* check_extent *)

Num(n) == [kind |-> "num", val |-> n]
NaN == [kind |-> "nan", val |-> 0]
Text == [kind |-> "text", val |-> 0]

\* float comparisons: any comparison with nan is False
FLess(a, n) == a.kind = "num" /\ a.val < n
FGreater(a, n) == a.kind = "num" /\ a.val > n
FGreaterF(a, b) == a.kind = "num" /\ b.kind = "num" /\ a.val > b.val

\* the error message of the ArgumentTypeError raised, or "ok"
check_extent(value) ==
    IF Len(value) # 4 THEN "format"
    ELSE IF \E i \in 1..4 : value[i].kind = "text" THEN "non-numeric"
    ELSE IF FLess(value[1], -180) \/ FGreater(value[1], 180) THEN "xmin"
    ELSE IF FLess(value[3], -180) \/ FGreater(value[3], 180) THEN "xmax"
    ELSE IF FLess(value[2], -90) \/ FGreater(value[2], 90) THEN "ymin"
    ELSE IF FLess(value[4], -90) \/ FGreater(value[4], 90) THEN "ymax"
    ELSE IF FGreaterF(value[1], value[3]) THEN "xmin>xmax"
    ELSE IF FGreaterF(value[2], value[4]) THEN "ymin>ymax"
    ELSE "ok"

-----------------------------------------------------------------------------
(* get_available_products: grouping the items into datasets *)

\* index of the first dataset called name, 0 if there is none
FirstNamed(dsl, name) ==
    IF \E i \in 1..Len(dsl) : dsl[i].name = name
    THEN CHOOSE i \in 1..Len(dsl) :
            /\ dsl[i].name = name
            /\ \A j \in 1..(i - 1) : dsl[j].name # name
    ELSE 0

\* grouping that places an item only once, in the first dataset it names
UnwindOnce(dsl, item, name) ==
    IF \E i \in 1..Len(dsl) : \E k \in 1..Len(dsl[i].items) :
            dsl[i].items[k] = item
    THEN dsl
    ELSE LET i == FirstNamed(dsl, name) IN
         IF i = 0 THEN Append(dsl, [name |-> name, items |-> <<item>>])
         ELSE [dsl EXCEPT ![i].items = Append(@, item)]

\* lines 84-89: one (item, ds_name) pair
Unwind(dsl, item, name) ==
    LET i == FirstNamed(dsl, name) IN
    IF i = 0 THEN Append(dsl, [name |-> name, items |-> <<item>>])
    ELSE [dsl EXCEPT ![i].items = Append(@, item)]

\* lines 83-89: the inner loop over item['datasets']
RECURSIVE UnwindItem(_, _, _)
UnwindItem(dsl, item, names) ==
    IF names = <<>> THEN dsl
    ELSE UnwindItem(Unwind(dsl, item, Head(names)), item, Tail(names))

\* lines 81-89: the outer loop over items
RECURSIVE UnwindAll(_, _)
UnwindAll(dsl, its) ==
    IF its = <<>> THEN dsl
    ELSE UnwindAll(UnwindItem(dsl, Head(its), Head(its).datasets), Tail(its))

\* insertion of d into a list sorted by name, after every entry not greater
RECURSIVE InsertByName(_, _)
InsertByName(sorted, d) ==
    IF sorted = <<>> THEN <<d>>
    ELSE IF StrLess(d.name, Head(sorted).name) THEN <<d>> \o sorted
    ELSE <<Head(sorted)>> \o InsertByName(Tail(sorted), d)

\* no sort: the datasets in order of first encounter
FirstEncounterOrder(dsl) == dsl

\* list.sort(key=lambda k: k['name']): a stable sort
RECURSIVE SortByName(_)
SortByName(dsl) ==
    IF dsl = <<>> THEN <<>>
    ELSE InsertByName(SortByName(SubSeq(dsl, 1, Len(dsl) - 1)), dsl[Len(dsl)])

\* lines 80-92: datasets_unwinded as returned
Resolve(its) == SortByName(UnwindAll(<<>>, its))

-----------------------------------------------------------------------------
(* Inputs *)

NameA == <<"a">>
NameB == <<"b">>

Item(url, names, size) ==
    [downloadURL |-> url, datasets |-> names, sizeInBytes |-> size]

NoSize == <<>>      \* the item has no 'sizeInBytes' key

\* the items the service may list: one dataset or two, with or without a
\* size, two of them at different URLs with the same file name, one at a URL
\* with a query string
ItemPool ==
    { Item(<<"/", "f">>, <<NameA>>, NoSize),
      Item(<<"/", "g", "?", "q">>, <<NameB>>, PyInt(100)),
      Item(<<"h", "/", "f">>, <<NameB, NameA>>, PyInt(924)) }

ItemSeqs == UNION { [1..n -> ItemPool] : n \in 0..MaxItems }

\* (messages, errors) of a response
Advisories == { << <<>>, <<>> >>, << <<"m">>, <<"e">> >> }

\* the JSON bodies the service may answer with: any item list without
\* advisories, and the lists of at most one item with them
Catalogs ==
    { [items |-> its, messages |-> <<>>, errors |-> <<>>] : its \in ItemSeqs }
        \cup { [items |-> its, messages |-> adv[1], errors |-> adv[2]] :
                  its \in { i \in ItemSeqs : Len(i) <= 1 }, adv \in Advisories }

\* -e arguments: a valid extent, a bad range, a bad component count
Extents ==
    { << Num(0), Num(0), Num(1), Num(1) >>,
      << Num(181), Num(0), Num(1), Num(1) >>,
      << Num(0), Num(0), Num(1) >> }

OutputDir == <<"o">>    \* the -o argument

-----------------------------------------------------------------------------
(* State after construction: the interpreter is about to parse argv *)

Init ==
    /\ pc = "parse_args"
    /\ exit_status = -1
    /\ exception = "none"
    /\ extent \in Extents
    /\ threads \in 0..MaxThreads
    /\ out_dir \in {"absent", "dir", "file"}
    /\ catalog \in Catalogs
    /\ net_calls = 0
    /\ response = "none"
    /\ spinner = "none"
    /\ locals_bound = FALSE
    /\ messages = <<>>
    /\ errors = <<>>
    /\ available_products = <<>>
    /\ items = <<>>
    /\ output = <<>>
    /\ prompted = FALSE
    /\ ticked = {}
    /\ download_called = FALSE
    /\ returned = FALSE
    /\ selected_datasets = <<>>
    /\ ds_idx = 0
    /\ batches = <<>>

Line(kind, text) == [kind |-> kind, text |-> text]

\* an uncaught exception (or argparse's parser.error) ends the process
Die(exc, status) ==
    /\ pc' = "exit"
    /\ exception' = exc
    /\ exit_status' = status

-----------------------------------------------------------------------------
(* __main__: parser.parse_args() with type=check_extent, type=check_output_dir *)

\* check_output_dir(value) when os.mkdir succeeds (mkdir_ok) or raises:
\* the path afterwards, and whether ArgumentTypeError is raised
check_output_dir(kind, mkdir_ok) ==
    IF kind = "absent"
    THEN IF mkdir_ok THEN [path |-> "dir", error |-> FALSE]
         ELSE [path |-> "absent", error |-> TRUE]
    ELSE [path |-> kind, error |-> FALSE]

\* argparse converts the arguments in the order they appear in argv and exits
\* with status 2 at the first ArgumentTypeError
ParseArgs ==
    /\ pc = "parse_args"
    /\ \E extent_first \in BOOLEAN, mkdir_ok \in BOOLEAN :
        LET e == check_extent(extent)
            o == check_output_dir(out_dir, mkdir_ok)
        IN  IF extent_first /\ e # "ok"
            THEN /\ Die("ArgumentTypeError", 2)
                 /\ UNCHANGED out_dir
            ELSE /\ out_dir' = o.path
                 /\ IF o.error \/ e # "ok"
                    THEN Die("ArgumentTypeError", 2)
                    ELSE /\ pc' = "query"
                         /\ UNCHANGED << exit_status, exception >>
    /\ UNCHANGED << inputs, net_calls, query_result, output, selection,
                    download_called, returned, ds_idx, batches >>

-----------------------------------------------------------------------------
(* main *)

\* a query that parses the body whatever the status code
QueryCatalogUnchecked ==
    /\ pc = "query"
    /\ net_calls' = net_calls + 1
    /\ \E outcome \in {"200", "non-200", "raises"} :
        /\ response' = outcome
        /\ IF outcome # "raises"
           THEN /\ items' = catalog.items
                /\ messages' = catalog.messages
                /\ errors' = catalog.errors
                /\ available_products' = Resolve(catalog.items)
                /\ locals_bound' = TRUE
                /\ spinner' = "ok"
           ELSE /\ spinner' = "fail"
                /\ UNCHANGED << messages, errors, available_products, items,
                                locals_bound >>
    /\ pc' = "print_advisories"
    /\ UNCHANGED << exit_status, exception, inputs, out_dir, output,
                    selection, download_called, returned, ds_idx, batches >>

\* lines 100-105: the query inside the spinner; get_available_products either
\* returns the three values or raises (non-200 status, or requests.get raises),
\* and the bare except only marks the spinner
QueryCatalog ==
    /\ pc = "query"
    /\ net_calls' = net_calls + 1
    /\ \E outcome \in {"200", "non-200", "raises"} :
        /\ response' = outcome
        /\ IF outcome = "200"
           THEN /\ items' = catalog.items
                /\ messages' = catalog.messages
                /\ errors' = catalog.errors
                /\ available_products' = Resolve(catalog.items)
                /\ locals_bound' = TRUE
                /\ spinner' = "ok"
           ELSE /\ spinner' = "fail"
                /\ UNCHANGED << messages, errors, available_products, items,
                                locals_bound >>
    /\ pc' = "print_advisories"
    /\ UNCHANGED << exit_status, exception, inputs, out_dir, output,
                    selection, download_called, returned, ds_idx, batches >>

RECURSIVE Lines(_, _)
Lines(kind, texts) ==
    IF texts = <<>> THEN <<>>
    ELSE <<Line(kind, <<Head(texts)>>)>> \o Lines(kind, Tail(texts))

\* lines 107-115; reading `messages` when line 102 did not assign it raises
\* UnboundLocalError, which nothing catches
PrintAdvisories ==
    /\ pc = "print_advisories"
    /\ IF ~locals_bound
       THEN /\ Die("UnboundLocalError", 1)
            /\ UNCHANGED output
       ELSE /\ output' = output
                \o (IF Len(messages) > 0
                    THEN <<Line("Messages:", <<>>)>> \o Lines("message", messages)
                    ELSE <<>>)
                \o (IF Len(errors) > 0
                    THEN <<Line("Errors:", <<>>)>> \o Lines("error", errors)
                    ELSE <<>>)
            /\ pc' = "check_empty"
            /\ UNCHANGED << exit_status, exception >>
    /\ UNCHANGED << inputs, out_dir, net_calls, query_result, selection,
                    download_called, returned, ds_idx, batches >>

\* the message without the sys.exit()
CheckEmptyNoExit ==
    /\ pc = "check_empty"
    /\ IF Len(available_products) = 0
       THEN output' = Append(output,
                        Line("No products found in requested extent", <<>>))
       ELSE UNCHANGED output
    /\ pc' = "prompt"
    /\ UNCHANGED << exit_status, exception, inputs, out_dir, net_calls,
                    query_result, selection, download_called, returned,
                    ds_idx, batches >>

\* lines 117-119; sys.exit() with no argument is exit status 0
CheckEmpty ==
    /\ pc = "check_empty"
    /\ IF Len(available_products) = 0
       THEN /\ output' = Append(output,
                        Line("No products found in requested extent", <<>>))
            /\ pc' = "exit"
            /\ exit_status' = 0
       ELSE /\ pc' = "prompt"
            /\ UNCHANGED << output, exit_status >>
    /\ UNCHANGED << exception, inputs, out_dir, net_calls, query_result,
                    selection, download_called, returned, ds_idx, batches >>

RECURSIVE SumSizes(_)
SumSizes(its) ==
    IF its = <<>> THEN PyInt(0)
    ELSE Add(IF Head(its).sizeInBytes = NoSize THEN PyInt(0)
             ELSE Head(its).sizeInBytes,
             SumSizes(Tail(its)), 0)

\* line 125: the choice shown for a dataset
Label(ds) ==
    ds.name \o <<" ", "|", " ">> \o <<ToString(Len(ds.items))>>
            \o <<" ", "items", " ", "@", " ">>
            \o human_size(SumSizes(ds.items), Units)

\* line 130: the dataset name read back from a ticked choice
SelectedName(label) == Strip(SplitFirst(label, "|"))

\* a selection in which ticking nothing stands for every dataset
FilterOrAll(products, names) ==
    IF names = {} THEN products
    ELSE SelectSeq(products, LAMBDA p : p.name \in names)

\* line 131
RECURSIVE Filter(_, _)
Filter(products, names) ==
    IF products = <<>> THEN <<>>
    ELSE (IF Head(products).name \in names THEN <<Head(products)>> ELSE <<>>)
         \o Filter(Tail(products), names)

\* lines 121-131: the choices are built, human_size raising IndexError ends
\* the run before the prompt is shown; else the user ticks any subset of the
\* choices
Prompt ==
    /\ pc = "prompt"
    /\ IF \E i \in 1..Len(available_products) :
            human_size(SumSizes(available_products[i].items), Units)
                = <<"IndexError">>
       THEN /\ Die("IndexError", 1)
            /\ UNCHANGED selection
       ELSE /\ prompted' = TRUE
            /\ \E answers \in SUBSET { Label(available_products[i]) :
                                        i \in 1..Len(available_products) } :
                /\ ticked' = answers
                /\ selected_datasets' =
                      Filter(available_products,
                             { SelectedName(l) : l \in answers })
            /\ pc' = "call_download"
            /\ UNCHANGED << exit_status, exception >>
    /\ UNCHANGED << inputs, out_dir, net_calls, query_result, output,
                    download_called, returned, ds_idx, batches >>

\* line 132: download_datasets(selected_datasets, output_dir, threads)
CallDownload ==
    /\ pc = "call_download"
    /\ download_called' = TRUE
    /\ pc' = "for"
    /\ UNCHANGED << exit_status, exception, inputs, out_dir, net_calls,
                    query_result, output, selection, returned, ds_idx, batches >>

-----------------------------------------------------------------------------
(* download_datasets *)

NoBar == [exists |-> FALSE, max |-> 0, index |-> 0, finished |-> FALSE]

NoPool == [exists |-> FALSE, max_workers |-> 0, num_threads |-> 0,
           idle_semaphore |-> 0, work_queue |-> <<>>, shutdown |-> FALSE]

\* no file written yet: a function from paths to file contents
NoFiles == [p \in {} |-> <<>>]

\* the j-th block of the response for a URL, and the zero bytes of a gap
Block(url, j) == [url |-> url, block |-> j]
Hole == [url |-> <<>>, block |-> 0]

\* a write of one block at block offset j through a file object of its own:
\* writing past the end of the file leaves a gap of zero bytes
WriteAt(content, j, block) ==
    [i \in 1..(IF j > Len(content) THEN j ELSE Len(content)) |->
        IF i = j THEN block
        ELSE IF i <= Len(content) THEN content[i]
        ELSE Hole]

\* line 20
DatasetDir(ds) == PathJoin(OutputDir, ds.name)

\* lines 24-27: one (url, localpath) per item; state is the state of the
\* future made for it: "new" (not submitted), "pending", "running", and the
\* terminal "ok" (result set) and "failed" (exception set); opened and
\* written are urlretrieve's progress: localpath opened, blocks written
Download(ds, i) ==
    [url |-> i.downloadURL,
     localpath |-> PathJoin(DatasetDir(ds), PathTail(i.downloadURL)),
     state |-> "new",
     opened |-> FALSE,
     written |-> 0]

Downloads(ds) == [k \in 1..Len(ds.items) |-> Download(ds, ds.items[k])]

\* a loop over the submitted futures that does not wait for them
FinishedOnSubmit(task) == task.state # "new"

\* Future.done()
Finished(task) == task.state \in {"ok", "failed"}

\* a return inside the loop over the datasets
ForDoneEarly ==
    /\ pc = "for"
    /\ returned' = TRUE
    /\ pc' = "exit"
    /\ exit_status' = 0
    /\ UNCHANGED << exception, inputs, out_dir, net_calls, query_result,
                    output, selection, download_called, ds_idx, batches >>

\* line 19, past the last dataset: download_datasets returns, main returns and
\* the interpreter exits with status 0
ForDone ==
    /\ pc = "for"
    /\ ds_idx = Len(selected_datasets)
    /\ returned' = TRUE
    /\ pc' = "exit"
    /\ exit_status' = 0
    /\ UNCHANGED << exception, inputs, out_dir, net_calls, query_result,
                    output, selection, download_called, ds_idx, batches >>

\* a loop that skips a dataset whose directory cannot be created
EnsureDatasetDirOrSkip ==
    /\ pc = "for"
    /\ ds_idx < Len(selected_datasets)
    /\ \E found \in {"absent", "dir", "file"}, mkdir_ok \in BOOLEAN :
        /\ out_dir # "dir" => found = "absent" /\ ~mkdir_ok
        /\ found # "absent" => mkdir_ok
        /\ IF found = "absent" /\ ~mkdir_ok
           THEN /\ ds_idx' = ds_idx + 1
                /\ UNCHANGED << pc, batches >>
           ELSE /\ batches' = Append(batches,
                    [name |-> selected_datasets[ds_idx + 1].name,
                     dir |-> IF found = "absent" THEN "dir" ELSE found,
                     created |-> found = "absent",
                     tasks |-> <<>>,
                     bar |-> [exists |-> FALSE, max |-> 0, index |-> 0,
                              finished |-> FALSE],
                     pool |-> [exists |-> FALSE, max_workers |-> 0,
                               num_threads |-> 0, idle_semaphore |-> 0,
                               work_queue |-> <<>>, shutdown |-> FALSE],
                     yielded |-> {},
                     files |-> [p \in {} |-> <<>>]])
                /\ pc' = "build"
                /\ UNCHANGED ds_idx
    /\ UNCHANGED << exit_status, exception, inputs, out_dir, net_calls,
                    query_result, output, selection, download_called,
                    returned >>

\* lines 19-22: the next dataset's directory.  The path may be absent, a
\* directory or a file; os.mkdir of an absent path may raise (permissions),
\* and does raise when output_dir is not a directory
EnsureDatasetDir ==
    /\ pc = "for"
    /\ ds_idx < Len(selected_datasets)
    /\ \E found \in {"absent", "dir", "file"}, mkdir_ok \in BOOLEAN :
        /\ out_dir # "dir" => found = "absent" /\ ~mkdir_ok
        /\ found # "absent" => mkdir_ok
        /\ IF found = "absent" /\ ~mkdir_ok
           THEN /\ Die("OSError", 1)
                /\ UNCHANGED batches
           ELSE /\ batches' = Append(batches,
                    [name |-> selected_datasets[ds_idx + 1].name,
                     dir |-> IF found = "absent" THEN "dir" ELSE found,
                     created |-> found = "absent",
                     tasks |-> <<>>,
                     bar |-> NoBar,
                     pool |-> NoPool,
                     yielded |-> {},
                     files |-> NoFiles])
                /\ pc' = "build"
                /\ UNCHANGED << exit_status, exception >>
    /\ UNCHANGED << inputs, out_dir, net_calls, query_result, output,
                    selection, download_called, returned, ds_idx >>

\* lines 24-30: the task list, the banner and the progress bar
BuildDownloads ==
    /\ pc = "build"
    /\ LET d == Len(batches)
           ds == selected_datasets[d]
       IN  /\ batches' = [batches EXCEPT
                ![d].tasks = Downloads(ds),
                ![d].bar = [exists |-> TRUE, max |-> Len(ds.items),
                            index |-> 0, finished |-> FALSE]]
           /\ output' = Append(output, Line("Starting to Download", ds.name))
    /\ pc' = "executor"
    /\ UNCHANGED << exit_status, exception, inputs, out_dir, net_calls,
                    query_result, selection, download_called, returned, ds_idx >>

\* line 31: ThreadPoolExecutor(max_workers=threads) raises ValueError unless
\* max_workers > 0
EnterExecutor ==
    /\ pc = "executor"
    /\ IF threads <= 0
       THEN /\ Die("ValueError", 1)
            /\ UNCHANGED batches
       ELSE /\ batches' = [batches EXCEPT ![Len(batches)].pool =
                              [NoPool EXCEPT !.exists = TRUE,
                                             !.max_workers = threads]]
            /\ pc' = "submit"
            /\ UNCHANGED << exit_status, exception >>
    /\ UNCHANGED << inputs, out_dir, net_calls, query_result, output,
                    selection, download_called, returned, ds_idx >>

\* a pool that starts a thread for every submission that finds no idle worker
AdjustThreadCountUnbounded(pool) ==
    IF pool.idle_semaphore > 0
    THEN [pool EXCEPT !.idle_semaphore = @ - 1]
    ELSE [pool EXCEPT !.num_threads = @ + 1]

\* ThreadPoolExecutor._adjust_thread_count, called by submit: reuse an idle
\* worker, else start a thread while fewer than max_workers exist
AdjustThreadCount(pool) ==
    IF pool.idle_semaphore > 0
    THEN [pool EXCEPT !.idle_semaphore = @ - 1]
    ELSE IF pool.num_threads < pool.max_workers
    THEN [pool EXCEPT !.num_threads = @ + 1]
    ELSE pool

\* the first task not yet submitted
NextNew(tasks) == CHOOSE k \in 1..Len(tasks) :
                     /\ tasks[k].state = "new"
                     /\ \A j \in 1..(k - 1) : tasks[j].state # "new"

\* lines 32-33: executor.submit for the next (url, localpath)
Submit ==
    /\ pc = "submit"
    /\ LET d == Len(batches)
           b == batches[d]
       IN  /\ \E k \in 1..Len(b.tasks) : b.tasks[k].state = "new"
           /\ LET k == NextNew(b.tasks) IN
              batches' = [batches EXCEPT
                ![d].tasks[k].state = "pending",
                ![d].pool = AdjustThreadCount(
                                [b.pool EXCEPT !.work_queue = Append(@, k)])]
    /\ UNCHANGED << pc, exit_status, exception, inputs, out_dir, net_calls,
                    query_result, output, selection, download_called,
                    returned, ds_idx >>

\* line 34: every future is submitted; as_completed starts
AllSubmitted ==
    /\ pc = "submit"
    /\ \A k \in 1..Len(batches[Len(batches)].tasks) :
          batches[Len(batches)].tasks[k].state # "new"
    /\ pc' = "as_completed"
    /\ UNCHANGED << exit_status, exception, inputs, out_dir, net_calls,
                    query_result, output, selection, download_called,
                    returned, ds_idx, batches >>

Running(b) == { k \in 1..Len(b.tasks) : b.tasks[k].state = "running" }

\* a worker thread of some executor takes the head of its work queue and
\* calls urllib.request.urlretrieve(url, localpath)
WorkerStart ==
    /\ \E d \in 1..Len(batches) :
        LET b == batches[d] IN
        /\ b.pool.exists
        /\ b.pool.work_queue # <<>>
        /\ Cardinality(Running(b)) < b.pool.num_threads
        /\ batches' = [batches EXCEPT
              ![d].tasks[Head(b.pool.work_queue)].state = "running",
              ![d].pool.work_queue = Tail(@)]
    /\ net_calls' = net_calls + 1
    /\ UNCHANGED << pc, exit_status, exception, inputs, out_dir, query_result,
                    output, selection, download_called, returned, ds_idx >>

\* urlretrieve, after urlopen: open(localpath, 'wb') creates or truncates the
\* file; it raises when the dataset path is not a directory
WorkerOpen ==
    /\ \E d \in 1..Len(batches) :
        LET b == batches[d] IN
        \E k \in Running(b) :
            /\ ~b.tasks[k].opened
            /\ b.dir = "dir"
            /\ batches' = [batches EXCEPT
                  ![d].tasks[k].opened = TRUE,
                  ![d].files = (b.tasks[k].localpath :> <<>>) @@ @]
    /\ UNCHANGED << pc, exit_status, exception, inputs, out_dir, net_calls,
                    query_result, output, selection, download_called,
                    returned, ds_idx >>

\* urlretrieve's loop: read the next block of the response and write it at
\* the position of this task's own file object
WorkerWrite ==
    /\ \E d \in 1..Len(batches) :
        LET b == batches[d] IN
        \E k \in Running(b) :
            LET t == b.tasks[k] IN
            /\ t.opened
            /\ t.written < BlocksPerFile
            /\ batches' = [batches EXCEPT
                  ![d].tasks[k].written = @ + 1,
                  ![d].files[t.localpath] =
                      WriteAt(@, t.written + 1, Block(t.url, t.written + 1))]
    /\ UNCHANGED << pc, exit_status, exception, inputs, out_dir, net_calls,
                    query_result, output, selection, download_called,
                    returned, ds_idx >>

\* urlretrieve returns once the whole response is written, or raises at any
\* point (urlopen, open, read); the worker stores the result or the exception
\* in the future and releases the idle semaphore
WorkerFinish ==
    /\ \E d \in 1..Len(batches) :
        LET b == batches[d] IN
        \E k \in Running(b), result \in {"ok", "failed"} :
            /\ result = "ok" =>
                  b.tasks[k].opened /\ b.tasks[k].written = BlocksPerFile
            /\ batches' = [batches EXCEPT
                  ![d].tasks[k].state = result,
                  ![d].pool.idle_semaphore = @ + 1]
    /\ UNCHANGED << pc, exit_status, exception, inputs, out_dir, net_calls,
                    query_result, output, selection, download_called,
                    returned, ds_idx >>

\* a bar advanced by two units per completion
BarNextTwice(bar) == [bar EXCEPT !.index = @ + 2]

\* IncrementalBar.next()
BarNext(bar) == [bar EXCEPT !.index = @ + 1]

\* a loop body that reads future.result(), which re-raises the exception of
\* a failed fetch
AsCompletedResult ==
    /\ pc = "as_completed"
    /\ LET d == Len(batches)
           b == batches[d]
       IN  \E k \in 1..Len(b.tasks) :
            /\ k \notin b.yielded
            /\ Finished(b.tasks[k])
            /\ batches' = [batches EXCEPT
                  ![d].yielded = @ \cup {k},
                  ![d].bar = BarNext(@)]
            /\ IF b.tasks[k].state = "failed"
               THEN Die("URLError", 1)
               ELSE UNCHANGED << pc, exit_status, exception >>
    /\ UNCHANGED << inputs, out_dir, net_calls, query_result, output,
                    selection, download_called, returned, ds_idx >>

\* lines 34-35: as_completed yields a finished future it has not yielded yet
\* and the loop body advances the bar; the future's result is never read
AsCompleted ==
    /\ pc = "as_completed"
    /\ LET d == Len(batches)
           b == batches[d]
       IN  \E k \in 1..Len(b.tasks) :
            /\ k \notin b.yielded
            /\ Finished(b.tasks[k])
            /\ batches' = [batches EXCEPT
                  ![d].yielded = @ \cup {k},
                  ![d].bar = BarNext(@)]
    /\ UNCHANGED << pc, exit_status, exception, inputs, out_dir, net_calls,
                    query_result, output, selection, download_called,
                    returned, ds_idx >>

\* line 36: as_completed is exhausted once every future has been yielded
BarFinish ==
    /\ pc = "as_completed"
    /\ LET d == Len(batches) IN
        /\ batches[d].yielded = 1..Len(batches[d].tasks)
        /\ batches' = [batches EXCEPT ![d].bar.finished = TRUE]
    /\ pc' = "with_exit"
    /\ UNCHANGED << exit_status, exception, inputs, out_dir, net_calls,
                    query_result, output, selection, download_called,
                    returned, ds_idx >>

\* end of the with block: executor.shutdown(wait=True) joins the workers,
\* which exit once the queue is empty and no work item is running
ExecutorExit ==
    /\ pc = "with_exit"
    /\ LET d == Len(batches) IN
        /\ \A k \in 1..Len(batches[d].tasks) : Finished(batches[d].tasks[k])
        /\ batches' = [batches EXCEPT ![d].pool.shutdown = TRUE]
    /\ ds_idx' = ds_idx + 1
    /\ pc' = "for"
    /\ UNCHANGED << exit_status, exception, inputs, out_dir, net_calls,
                    query_result, output, selection, download_called, returned >>

-----------------------------------------------------------------------------

\* main and the command line, up to the call of download_datasets
Main ==
    \/ ParseArgs
    \/ QueryCatalog
    \/ PrintAdvisories
    \/ CheckEmpty
    \/ Prompt
    \/ CallDownload

\* the main thread inside download_datasets
DownloadDatasets ==
    \/ ForDone
    \/ EnsureDatasetDir
    \/ BuildDownloads
    \/ EnterExecutor
    \/ Submit
    \/ AllSubmitted
    \/ AsCompleted
    \/ BarFinish
    \/ ExecutorExit

\* the worker threads of the executors
Worker ==
    \/ WorkerStart
    \/ WorkerOpen
    \/ WorkerWrite
    \/ WorkerFinish

Next == Main \/ DownloadDatasets \/ Worker

Spec == Init /\ [][Next]_vars

\* inside download_datasets the interpreter keeps scheduling the main thread
\* and the worker threads, and every fetch ends
FairSpec == Spec /\ WF_vars(DownloadDatasets) /\ WF_vars(Worker)

-----------------------------------------------------------------------------
(* get_available_products alone, over a wider range of catalogs: the run
   starts at the query with the arguments already accepted and stops at the
   prompt *)

MaxResolveItems == 3    \* catalog items in a response

ResolveNames == { <<"a">>, <<"b">>, <<"a", "b">> }

\* one or two names, repeated or not, in either order
ResolveMemberships ==
    { <<n>> : n \in ResolveNames }
        \cup { <<n, m>> : n \in ResolveNames, m \in ResolveNames }

ResolveItemPool == { Item(<<"/", "f">>, m, NoSize) : m \in ResolveMemberships }

ResolveCatalogs ==
    { [items |-> its, messages |-> adv[1], errors |-> adv[2]] :
        its \in UNION { [1..n -> ResolveItemPool] : n \in 0..MaxResolveItems },
        adv \in Advisories }

InitResolver ==
    /\ pc = "query"
    /\ exit_status = -1
    /\ exception = "none"
    /\ extent = << Num(0), Num(0), Num(1), Num(1) >>
    /\ threads = 1
    /\ out_dir = "dir"
    /\ catalog \in ResolveCatalogs
    /\ net_calls = 0
    /\ response = "none"
    /\ spinner = "none"
    /\ locals_bound = FALSE
    /\ messages = <<>>
    /\ errors = <<>>
    /\ available_products = <<>>
    /\ items = <<>>
    /\ output = <<>>
    /\ prompted = FALSE
    /\ ticked = {}
    /\ download_called = FALSE
    /\ returned = FALSE
    /\ selected_datasets = <<>>
    /\ ds_idx = 0
    /\ batches = <<>>

NextResolver ==
    \/ QueryCatalog
    \/ PrintAdvisories
    \/ CheckEmpty

SpecResolver == InitResolver /\ [][NextResolver]_vars

-----------------------------------------------------------------------------
(* The selection prompt alone, over a wider range of dataset names and byte
   counts: the run starts at the prompt with the catalog resolved and stops
   at the call of download_datasets *)

MaxDigits == 8          \* base-1024 digits of a byte count: up to 1024^8 - 1
MaxPromptItems == 2     \* catalog items in a response

NamePipe == <<"a", "|", "b">>
NamePadded == <<" ", "a">>

\* dataset names with and without '|' and leading white space
PromptNames == { NameA, NameB, NamePipe, NamePadded }

\* byte counts of 1 to MaxDigits digits: 0, 512, 1023, 1024, 1536, ...
ByteCounts ==
    { PyInt(n) : n \in {0, 512, 1023} }
        \cup UNION { { [i \in 1..n |-> IF i = 1 THEN lo
                                      ELSE IF i = n THEN hi ELSE 0] :
                        lo \in {0, 512}, hi \in {1, 1023} } :
                    n \in 2..MaxDigits }

PromptItemPool ==
    { Item(<<"/", "f">>, <<n>>, NoSize) : n \in PromptNames }
        \cup { Item(<<"/", "f">>, <<NameA>>, b) : b \in ByteCounts }

PromptCatalogs ==
    { [items |-> its, messages |-> <<>>, errors |-> <<>>] :
        its \in UNION { [1..n -> PromptItemPool] : n \in 1..MaxPromptItems } }

InitPrompt ==
    /\ pc = "prompt"
    /\ exit_status = -1
    /\ exception = "none"
    /\ extent = << Num(0), Num(0), Num(1), Num(1) >>
    /\ threads = 1
    /\ out_dir = "dir"
    /\ catalog \in PromptCatalogs
    /\ net_calls = 1
    /\ response = "200"
    /\ spinner = "ok"
    /\ locals_bound = TRUE
    /\ messages = <<>>
    /\ errors = <<>>
    /\ available_products = Resolve(catalog.items)
    /\ items = catalog.items
    /\ output = <<>>
    /\ prompted = FALSE
    /\ ticked = {}
    /\ download_called = FALSE
    /\ returned = FALSE
    /\ selected_datasets = <<>>
    /\ ds_idx = 0
    /\ batches = <<>>

NextPrompt ==
    \/ Prompt
    \/ CallDownload

SpecPrompt == InitPrompt /\ [][NextPrompt]_vars

-----------------------------------------------------------------------------
(* The command line alone, over a wider range of -e arguments: the run stops
   when parse_args has returned or exited *)

MaxComponents == 5      \* components of the -e argument

\* what a component may be: numbers inside and outside the longitude and
\* latitude ranges, nan, and text float() rejects
ExtentTokens ==
    { Num(-181), Num(-91), Num(0), Num(91), Num(181), NaN, Text }

ArgExtents == UNION { [1..n -> ExtentTokens] : n \in 1..MaxComponents }

InitArgs ==
    /\ pc = "parse_args"
    /\ exit_status = -1
    /\ exception = "none"
    /\ extent \in ArgExtents
    /\ threads = 1
    /\ out_dir = "dir"
    /\ catalog = [items |-> <<>>, messages |-> <<>>, errors |-> <<>>]
    /\ net_calls = 0
    /\ response = "none"
    /\ spinner = "none"
    /\ locals_bound = FALSE
    /\ messages = <<>>
    /\ errors = <<>>
    /\ available_products = <<>>
    /\ items = <<>>
    /\ output = <<>>
    /\ prompted = FALSE
    /\ ticked = {}
    /\ download_called = FALSE
    /\ returned = FALSE
    /\ selected_datasets = <<>>
    /\ ds_idx = 0
    /\ batches = <<>>

NextArgs == ParseArgs

SpecArgs == InitArgs /\ [][NextArgs]_vars

-----------------------------------------------------------------------------
(* Properties *)

Batches == 1..Len(batches)
TaskIds(d) == 1..Len(batches[d].tasks)
InState(d, states) == { k \in TaskIds(d) : batches[d].tasks[k].state \in states }
InFlight(d) == InState(d, {"running"})
Terminal(d) == InState(d, {"ok", "failed"})
Failed(d) == InState(d, {"failed"})

\* C1: in a batch of N tasks run with W workers, 1 <= W < N, the number of
\* fetches started and not yet terminal never exceeds W
C1_InFlightAtMostW ==
    \A d \in Batches :
        (1 <= threads /\ threads < Len(batches[d].tasks))
            => Cardinality(InFlight(d)) <= threads

\* every worker is busy while a submitted task still waits in the queue
C1_Witness ==
    \E d \in Batches :
        /\ 1 <= threads /\ threads < Len(batches[d].tasks)
        /\ Cardinality(InFlight(d)) = threads
        /\ InState(d, {"pending"}) # {}

\* C2: datasets are processed one at a time: a later dataset's directory is
\* ensured and its tasks exist only after every task of each earlier dataset
\* is terminal and that batch was reported finished, and tasks of two
\* datasets are never in flight together
C2_DatasetsSequential ==
    /\ \A d \in Batches : \A e \in Batches :
          d < e => /\ Terminal(d) = 1..Len(selected_datasets[d].items)
                   /\ batches[d].bar.finished
    /\ \A d \in Batches : \A e \in Batches :
          (InFlight(d) # {} /\ InFlight(e) # {}) => d = e

\* the second dataset's directory was created and one of its tasks is in
\* flight after the first dataset's batch finished
C2_Witness ==
    /\ Len(batches) = 2
    /\ batches[2].created
    /\ InFlight(2) # {}
    /\ batches[1].bar.finished

\* C4: the bar of a dataset with N items has maximum N; it has advanced once
\* for each completion handed to the loop, never by more than the number of
\* terminal tasks nor beyond N, and stands at N once the batch is finished
C4_BarCountsCompletions ==
    \A d \in Batches :
        LET bar == batches[d].bar
            n == Len(selected_datasets[d].items)
        IN  bar.exists =>
              /\ bar.max = n
              /\ bar.index = Cardinality(batches[d].yielded)
              /\ bar.index <= Cardinality(Terminal(d))
              /\ Cardinality(Terminal(d)) <= n
              /\ bar.finished => bar.index = n

\* a finished bar at 2 of 2 that counted a failed task and a successful one
C4_Witness ==
    \E d \in Batches :
        /\ batches[d].bar.finished
        /\ batches[d].bar.index = 2
        /\ Failed(d) # {}
        /\ InState(d, {"ok"}) # {}

AllBegun == Len(batches) = Len(selected_datasets)
AllDrained ==
    /\ AllBegun
    /\ \A d \in Batches : Terminal(d) = 1..Len(selected_datasets[d].items)
SomeFailed == \E d \in Batches : Failed(d) # {}

\* C3: a failed fetch stops nothing: a batch that was reported finished has
\* every task terminal although one failed, and a run in which a fetch failed
\* and every selected dataset was begun ends only by download_datasets
\* returning, with every task terminal and exit status 0
C3_FailureIsolated ==
    /\ \A d \in Batches :
          (Failed(d) # {} /\ batches[d].bar.finished)
              => Terminal(d) = 1..Len(selected_datasets[d].items)
    /\ (SomeFailed /\ AllBegun /\ pc = "exit")
          => /\ returned
             /\ exception = "none"
             /\ exit_status = 0
             /\ AllDrained

\* the run ended with status 0 after a batch in which one fetch failed and
\* another succeeded
C3_Witness ==
    /\ pc = "exit" /\ returned /\ exit_status = 0
    /\ \E d \in Batches : Failed(d) # {} /\ InState(d, {"ok"}) # {}

\* C5 as stated: download_datasets, called with a positive worker count,
\* ends only by returning, and then every task of every selected dataset is
\* terminal
C5_AlwaysReturns ==
    /\ (threads >= 1 /\ download_called /\ pc = "exit") => returned
    /\ returned => AllDrained

\* C5 as amended: under fair scheduling a call of download_datasets ends; it
\* ends by returning unless os.mkdir of a dataset directory or the
\* construction of the executor raised; and whenever it has returned, every
\* task of every selected dataset is terminal
C5_TerminatesDrained ==
    /\ download_called ~> (pc = "exit")
    /\ [](returned => AllDrained)
    /\ []((download_called /\ pc = "exit" /\ ~returned)
            => exception \in {"OSError", "ValueError"})

\* download_datasets has returned from a run over two datasets in which a
\* fetch of the first dataset failed
C5_Witness ==
    /\ returned
    /\ Len(selected_datasets) = 2
    /\ Failed(1) # {}
    /\ AllDrained

\* what the program prints: the advisories, the empty-result message and
\* the banner of each dataset
PrintedKinds ==
    { "Messages:", "message", "Errors:", "error",
      "No products found in requested extent", "Starting to Download" }

\* C6: after a run in which some fetch failed, the output holds a report of
\* the failures
C6_FailuresReported ==
    (returned /\ SomeFailed)
        => \E i \in 1..Len(output) : output[i].kind \notin PrintedKinds

\* C7: when the catalog query fails (non-200, or the request raises), the
\* failure is shown on the spinner, and the run goes no further than the
\* read of `messages` that ends it: no prompt, no download_datasets, no
\* dataset directory
C7_CatalogFailureStops ==
    response \in {"non-200", "raises"}
        => /\ spinner = "fail"
           /\ ~prompted
           /\ ~download_called
           /\ batches = <<>>
           /\ pc \in {"print_advisories", "exit"}
           /\ pc = "exit" => exit_status # 0

\* the run has ended after a non-200 answer
C7_Witness ==
    /\ response = "non-200"
    /\ pc = "exit"
    /\ exception = "UnboundLocalError"

LastLine == output[Len(output)]

\* C8: when the catalog answers with zero items, no dataset is resolved,
\* neither the prompt nor download_datasets is invoked, and the run ends
\* with exit status 0 right after the "No products found" message
C8_EmptyCatalogExitsZero ==
    (response = "200" /\ items = <<>>)
        => /\ available_products = <<>>
           /\ ~prompted
           /\ ~download_called
           /\ pc \in {"print_advisories", "check_empty", "exit"}
           /\ pc = "exit"
                => /\ exit_status = 0
                   /\ exception = "none"
                   /\ output # <<>>
                   /\ LastLine.kind = "No products found in requested extent"

\* the run has ended after an answer with no items
C8_Witness ==
    /\ response = "200" /\ items = <<>>
    /\ pc = "exit" /\ exit_status = 0

\* C9: with an invalid extent, or an output path that is not a directory
\* when the arguments have been converted, no HTTP request is ever issued
C9_BadArgsNoNetwork ==
    (check_extent(extent) # "ok" \/ (pc # "parse_args" /\ out_dir # "dir"))
        => net_calls = 0

\* the dataset names the items' membership lists mention
NamesMentioned(its) ==
    UNION { { its[i].datasets[j] : j \in 1..Len(its[i].datasets) } :
               i \in 1..Len(its) }

\* C10: for a non-empty item list the resolved datasets are in ascending
\* order of name, no two have the same name, and their names are exactly the
\* names the items' membership lists mention
C10_SortedDistinctExact ==
    (locals_bound /\ items # <<>>) =>
        LET ap == available_products IN
        /\ \A i \in 1..Len(ap) : \A j \in 1..Len(ap) :
              i < j => ~StrLess(ap[j].name, ap[i].name)
        /\ \A i \in 1..Len(ap) : \A j \in 1..Len(ap) :
              ap[i].name = ap[j].name => i = j
        /\ { ap[i].name : i \in 1..Len(ap) } = NamesMentioned(items)

\* three datasets resolved from items that mention "b" before "a"
C10_Witness ==
    /\ locals_bound
    /\ Len(available_products) = 3
    /\ items[1].datasets[1] = <<"b">>
    /\ available_products[1].name = <<"a">>

\* the names in one membership list
NamesOf(item) == { item.datasets[j] : j \in 1..Len(item.datasets) }

\* the (item position, membership position) pairs that name `name`
Mentions(its, name) ==
    UNION { { <<i, j>> : j \in { j \in 1..Len(its[i].datasets) :
                                   its[i].datasets[j] = name } } :
            i \in 1..Len(its) }

\* C11: an item whose membership names K >= 1 distinct datasets is in the
\* item list of a resolved dataset exactly when it names that dataset, so in
\* exactly K of them and in at least one; nothing is deduplicated: a
\* dataset's list has one entry for each mention of its name
C11_ItemInExactlyItsDatasets ==
    locals_bound =>
        LET ap == available_products IN
        /\ \A i \in 1..Len(items) : \A d \in 1..Len(ap) :
              (\E k \in 1..Len(ap[d].items) : ap[d].items[k] = items[i])
                  <=> ap[d].name \in NamesOf(items[i])
        /\ \A i \in 1..Len(items) :
              LET holders == { d \in 1..Len(ap) :
                                 \E k \in 1..Len(ap[d].items) :
                                     ap[d].items[k] = items[i] }
              IN  /\ Cardinality(holders) = Cardinality(NamesOf(items[i]))
                  /\ Cardinality(holders) >= 1
        /\ \A d \in 1..Len(ap) :
              Len(ap[d].items) = Cardinality(Mentions(items, ap[d].name))

\* an item naming two datasets is in both lists while a third dataset, which
\* it does not name, was resolved too
C11_Witness ==
    /\ locals_bound
    /\ Len(available_products) = 3
    /\ \E i \in 1..Len(items) :
          /\ Cardinality(NamesOf(items[i])) = 2
          /\ Cardinality({ d \in 1..3 :
                \E k \in 1..Len(available_products[d].items) :
                    available_products[d].items[k] = items[i] }) = 2

\* a URL without its query string: what precedes the first '?'
StripQuery(url) == SplitFirst(url, "?")

\* C12: the destination path of every task is
\* <output_dir>/<dataset_name>/<basename of the download URL>, whatever query
\* string the URL carries
C12_PathIgnoresQuery ==
    \A d \in Batches : \A k \in TaskIds(d) :
        batches[d].tasks[k].localpath =
            OutputDir \o <<"/">> \o batches[d].name \o <<"/">>
                \o PathTail(StripQuery(batches[d].tasks[k].url))

\* C13: human_size returns a result for every byte count: building the
\* choices of the prompt never ends the run with an IndexError
C13_HumanSizeNeverFails == exception # "IndexError"

\* C14: after an empty selection nothing is downloaded: no dataset directory
\* is looked at or created, no fetch is issued (the catalog query stays the
\* only request), and the run can only end by download_datasets returning,
\* with exit status 0
C14_EmptySelectionNoDownloads ==
    (prompted /\ ticked = {}) =>
        /\ selected_datasets = <<>>
        /\ batches = <<>>
        /\ net_calls = 1
        /\ exception = "none"
        /\ pc \in {"call_download", "for", "exit"}
        /\ pc = "exit" => (returned /\ exit_status = 0)

\* the run has ended after a prompt in which two datasets were offered and
\* none was ticked
C14_Witness ==
    /\ prompted
    /\ ticked = {}
    /\ Len(available_products) = 2
    /\ download_called
    /\ pc = "exit"

\* C15: a task is in flight only if the path <output_dir>/<dataset_name> is
\* an existing directory
C15_InFlightOnlyInDirectory ==
    \A d \in Batches : InFlight(d) # {} => batches[d].dir = "dir"

\* the whole response for a URL
Content(url) == [j \in 1..BlocksPerFile |-> Block(url, j)]

\* C16: two tasks in flight together have the same destination only if they
\* are of the same dataset and their URLs have the same basename; and once
\* the batch has drained with two fetches of one destination successful, the
\* file holds the whole response of one of them
C16_CollisionLeavesOneWhole ==
    /\ \A d, e \in Batches : \A k \in InFlight(d), m \in InFlight(e) :
          batches[d].tasks[k].localpath = batches[e].tasks[m].localpath
              => /\ d = e
                 /\ PathTail(batches[d].tasks[k].url)
                        = PathTail(batches[e].tasks[m].url)
    /\ \A d \in Batches : \A k, m \in TaskIds(d) :
          LET t == batches[d].tasks[k]
              u == batches[d].tasks[m]
          IN  (/\ k # m
               /\ t.localpath = u.localpath
               /\ t.state = "ok" /\ u.state = "ok"
               /\ Terminal(d) = TaskIds(d))
                  => batches[d].files[t.localpath]
                         \in {Content(t.url), Content(u.url)}

\* C17: the datasets handed to download_datasets are exactly the datasets
\* whose choices the user ticked, whatever the dataset names are
C17_SelectedAreTicked ==
    download_called =>
        { Label(selected_datasets[i]) : i \in 1..Len(selected_datasets) }
            = ticked

\* C18: when os.mkdir of a dataset directory raises, the exception ends the
\* run: download_datasets does not return, the dataset has no task, no later
\* dataset has a directory or a task, nothing is pending or in flight, and
\* the files of the successful fetches of the earlier datasets are there.
\* Under an output path that is not a directory os.mkdir can only raise, so
\* a run that reaches download_datasets with a selection ends this way
C18_MkdirFailurePropagates ==
    /\ exception = "OSError" =>
          /\ pc = "exit" /\ ~returned /\ exit_status = 1
          /\ ds_idx < Len(selected_datasets)
          /\ Len(batches) = ds_idx
          /\ \A d \in Batches :
                /\ Terminal(d) = TaskIds(d)
                /\ batches[d].name = selected_datasets[d].name
                /\ \A k \in TaskIds(d) :
                      batches[d].tasks[k].state = "ok" =>
                          batches[d].tasks[k].localpath
                              \in DOMAIN batches[d].files
    /\ (out_dir # "dir" /\ download_called) =>
          /\ batches = <<>>
          /\ (pc = "exit" /\ selected_datasets # <<>>) =>
                 (exception = "OSError" /\ ~returned)

\* the directory of the second of two selected datasets could not be
\* created, after a successful fetch for the first
C18_Witness ==
    /\ exception = "OSError"
    /\ Len(selected_datasets) = 2
    /\ ds_idx = 1
    /\ \E k \in TaskIds(1) : batches[1].tasks[k].state = "ok"

\* xmin,ymin,xmax,ymax are four numbers with -180 <= xmin <= xmax <= 180 and
\* -90 <= ymin <= ymax <= 90
InRange(value) ==
    /\ Len(value) = 4
    /\ \A i \in 1..4 : value[i].kind = "num"
    /\ -180 <= value[1].val /\ value[1].val <= value[3].val
    /\ value[3].val <= 180
    /\ -90 <= value[2].val /\ value[2].val <= value[4].val
    /\ value[4].val <= 90

\* C19: parse_args accepts the -e argument exactly when it is four numbers
\* in range and in order, and exits with an argument error otherwise
C19_AcceptsIffInRange ==
    pc # "parse_args" =>
        /\ InRange(extent) <=> (pc = "query" /\ exception = "none")
        /\ ~InRange(extent) <=>
              (pc = "exit" /\ exception = "ArgumentTypeError" /\ exit_status = 2)

====
